---- MODULE Spec2Model ----
(***************************************************************************)
(* A model of BrandPulse.py: the completion client, the four analysis     *)
(* operations of MarketingAgencyAutomation, the comprehensive report      *)
(* pipeline of main() and the section parsing loop main() runs over each  *)
(* competitor's analysis text.                                            *)
(*                                                                         *)
(* A Python str is a sequence of tokens (TLA+ strings).  "\n" is the line *)
(* separator token, " " a whitespace token, every other token stands for  *)
(* a run of non-blank characters; each canonical section name is one      *)
(* token, so `name in line` is token membership.  A Python dict is a      *)
(* sequence of <<key, value>> pairs in insertion order.                   *)
(***************************************************************************)
EXTENDS Integers, Sequences, FiniteSets, TLC

VARIABLES
    \* ---- section parsing loop (main, lines 499-522 and 709-732)
    analysis_text,      \* the str handed to the parser
    bodies,             \* the body texts analysis_text was written from, if any
    lines,              \* analysis_text.split('\n')
    li,                 \* index of the next line of the for loop
    sections,           \* dict section name -> text
    current_section,    \* "" or a section name
    current_content,    \* list of lines
    ppc,                \* position of the parsing code
    \* ---- one click on an analysis button of main()
    tool,               \* which button was clicked
    pc,                 \* position of main(): the outbound call it is about to make
    main_url, brand_name, industry, keywords, competitors,      \* the form fields
    keywords_list,      \* [k.strip() for k in keywords.split(',')]
    calls,              \* the prompts the completion service has received
    completions,        \* every _get_completion so far: its prompt, the service's
                        \* error if any, the value returned, the exception raised
    http_gets,          \* every session.get so far: the URL and how it ended
    st_errors,          \* the messages shown with st.error
    progress,           \* the values handed to progress_bar.progress, as percentages
    escaped,            \* <<>>, or the exception that ended the click handler
    failures,           \* how many completion calls have failed so far
    title, meta_desc, h1_tags,                      \* locals of seo_optimizer
    seo_results,
    ci, quick_summary, competitor_analysis,         \* locals of competitor_watchdog
    competitor_results,                              \* competitor_data, then the returned dict
    content_results,
    si, email_content,                              \* locals of smart_email_manager
    email_results,                                   \* email_templates, then the returned dict
    summary_prompt, comprehensive_report,
    tabs,               \* per competitor, the sections shown in the analysis tabs
    generated_on,       \* <<>>, or the clock's reading written as "Generated on"
    deadlines,          \* the deadlines dict: term -> date
    timeline            \* the lines written under "Action Plan Timeline"

pvars == <<analysis_text, bodies, lines, li, sections, current_section, current_content,
           ppc>>

inputs == <<tool, main_url, brand_name, industry, keywords, competitors>>

seovars == <<title, meta_desc, h1_tags, seo_results>>

watchvars == <<ci, quick_summary, competitor_analysis, competitor_results>>

emailvars == <<si, email_content, email_results>>

synthvars == <<summary_prompt, comprehensive_report>>

iovars == <<calls, completions, http_gets, st_errors, escaped>>

\* what the handler has put on the page
shown == <<tabs, generated_on, deadlines, timeline>>

mvars == <<inputs, pc, keywords_list, iovars, failures, progress, seovars, watchvars,
           content_results, emailvars, synthvars, shown>>

vars == <<pvars, mvars>>

\* ------------------------------------------------------------------ bounds

MaxTextLen == 5         \* longest parser input, in tokens

\* ----------------------------------------------------------------- strings

NL == "\n"
Whitespace == {" "}

\* The five section names, in the order of the dict literal.
SectionNames ==
    << "Content Strategy", "Keyword Analysis", "Market Presence",
       "Competitive Advantages", "Actionable Recommendations" >>

Range(s) == {s[i] : i \in DOMAIN s}

\* section in line
Contains(line, tok) == tok \in Range(line)

\* bool(line.strip())
NonBlank(line) == \E i \in DOMAIN line : line[i] \notin Whitespace \cup {NL}

\* s.split('\n'): one more piece than there are separators
RECURSIVE SplitFrom(_, _, _)
SplitFrom(s, i, cur) ==
    IF i > Len(s) THEN <<cur>>
    ELSE IF s[i] = NL THEN <<cur>> \o SplitFrom(s, i + 1, <<>>)
    ELSE SplitFrom(s, i + 1, Append(cur, s[i]))

Split(s) == SplitFrom(s, 1, <<>>)

\* '\n'.join(ls)
RECURSIVE Join(_)
Join(ls) ==
    IF Len(ls) = 0 THEN <<>>
    ELSE IF Len(ls) = 1 THEN ls[1]
    ELSE ls[1] \o <<NL>> \o Join(Tail(ls))

\* ------------------------------------------------------------------- dicts

DictKeys(d) == [i \in DOMAIN d |-> d[i][1]]

HasKey(d, k) == \E i \in DOMAIN d : d[i][1] = k

DictGet(d, k) == d[CHOOSE i \in DOMAIN d : d[i][1] = k][2]

\* A faulty d[k] = v that deletes the key and inserts it again at the end.
DictSetReinsert(d, k, v) ==
    Append(SelectSeq(d, LAMBDA p : p[1] # k), <<k, v>>)

\* d[k] = v: an existing key keeps its position, a new key goes last
DictSet(d, k, v) ==
    IF HasKey(d, k)
    THEN [i \in DOMAIN d |-> IF d[i][1] = k THEN <<k, v>> ELSE d[i]]
    ELSE Append(d, <<k, v>>)

\* ---------------------------------------------------------- section parser

\* sections = {"Content Strategy": "", ..., "Actionable Recommendations": ""}
EmptySections == [i \in DOMAIN SectionNames |-> <<SectionNames[i], <<>>>>]

\* any(section in line for section in sections.keys())
IsHeading(secs, line) == \E i \in DOMAIN secs : Contains(line, secs[i][1])

\* next(section for section in sections.keys() if section in line)
FirstHeading(secs, line) ==
    secs[CHOOSE i \in DOMAIN secs :
            /\ Contains(line, secs[i][1])
            /\ \A j \in DOMAIN secs : Contains(line, secs[j][1]) => i <= j][1]

\* if current_section and current_content: sections[current_section] = '\n'.join(...)
Flush(secs, cs, cc) ==
    IF cs # "" /\ cc # <<>> THEN DictSet(secs, cs, Join(cc)) ELSE secs

\* An iteration that appends the line without its blanks.
ParseStepStripping(st, line) ==
    IF IsHeading(st.sections, line)
    THEN [ sections |-> Flush(st.sections, st.current_section, st.current_content),
           current_content |->
               IF st.current_section # "" /\ st.current_content # <<>>
               THEN <<>> ELSE st.current_content,
           current_section |-> FirstHeading(st.sections, line) ]
    ELSE IF st.current_section # "" /\ NonBlank(line)
    THEN [st EXCEPT !.current_content = Append(@, SelectSeq(line, LAMBDA t : t \notin Whitespace))]
    ELSE st

\* One iteration of `for line in analysis_text.split('\n')` on the parser
\* state st = [sections, current_section, current_content].
ParseStep(st, line) ==
    IF IsHeading(st.sections, line)
    THEN [ sections |-> Flush(st.sections, st.current_section, st.current_content),
           current_content |->
               IF st.current_section # "" /\ st.current_content # <<>>
               THEN <<>> ELSE st.current_content,
           current_section |-> FirstHeading(st.sections, line) ]
    ELSE IF st.current_section # "" /\ NonBlank(line)
    THEN [st EXCEPT !.current_content = Append(@, line)]
    ELSE st

\* A scanner that starts with the first section already active.
ParseStartActive ==
    [sections |-> EmptySections, current_section |-> SectionNames[1],
     current_content |-> <<>>]

ParseStart ==
    [sections |-> EmptySections, current_section |-> "", current_content |-> <<>>]

\* The for loop from line i on.  (The one-element sets make TLC compute the
\* state once per line instead of once per use.)
RECURSIVE ParseLoop(_, _, _)
ParseLoop(st, ls, i) ==
    IF i > Len(ls) THEN st
    ELSE CHOOSE r \in {ParseLoop(ParseStep(s, ls[i]), ls, i + 1) : s \in {st}} : TRUE

\* The whole parse of one text: the loop, then the final flush.
ParseSections(text) ==
    CHOOSE r \in {Flush(st.sections, st.current_section, st.current_content) :
                     st \in {ParseLoop(ParseStart, ls, 1) : ls \in {Split(text)}}} : TRUE

\* -------------------------------------------------------- more str helpers

Min(a, b) == IF a < b THEN a ELSE b

\* s.split(sep)
RECURSIVE SplitOnFrom(_, _, _, _)
SplitOnFrom(s, sep, i, cur) ==
    IF i > Len(s) THEN <<cur>>
    ELSE IF s[i] = sep THEN <<cur>> \o SplitOnFrom(s, sep, i + 1, <<>>)
    ELSE SplitOnFrom(s, sep, i + 1, Append(cur, s[i]))

SplitOn(s, sep) == SplitOnFrom(s, sep, 1, <<>>)

\* s.strip()
RECURSIVE LStrip(_)
LStrip(s) ==
    IF s # <<>> /\ Head(s) \in Whitespace \cup {NL} THEN LStrip(Tail(s)) ELSE s

RECURSIVE RStrip(_)
RStrip(s) ==
    IF s # <<>> /\ s[Len(s)] \in Whitespace \cup {NL}
    THEN RStrip(SubSeq(s, 1, Len(s) - 1)) ELSE s

Strip(s) == RStrip(LStrip(s))

\* sep.join(ls), sep a str
RECURSIVE JoinWith(_, _)
JoinWith(ls, sep) ==
    IF Len(ls) = 0 THEN <<>>
    ELSE IF Len(ls) = 1 THEN ls[1]
    ELSE ls[1] \o sep \o JoinWith(Tail(ls), sep)

\* s[:n]
Prefix(s, n) == SubSeq(s, 1, Min(Len(s), n))

\* A one-line form field: "" or one token.
Str(field) == IF field = "" THEN <<>> ELSE <<field>>

\* ------------------------------------------------------ completion client

\* What one call of groq.chat.completions.create does: it returns a
\* completion or raises.  The service is outside the program; a successful
\* call returns this canned text, which names the prompt it answers and
\* has two of the section headings in it.
Generated(prompt) ==
    <<"Keyword Analysis", NL, "answer to">> \o prompt
        \o <<NL, "Content Strategy", NL, "more">>

CallOk == [ok |-> TRUE]
CallFails(e) == [ok |-> FALSE, error |-> e]

SorryText ==
    <<"Sorry, there was an error generating the content. Please try again later.">>

\* A _get_completion without its except clause: the error leaves the method.
GetCompletionNoExcept(prompt, out) ==
    IF out.ok
    THEN [value |-> Generated(prompt), raised |-> <<>>,
          requests |-> <<prompt>>, shown |-> <<>>]
    ELSE [value |-> <<>>, raised |-> <<out.error>>,
          requests |-> <<prompt>>, shown |-> <<>>]

\* A _get_completion that tries the service a second time after a failure.
GetCompletionRetry(prompt, out) ==
    IF out.ok
    THEN [value |-> Generated(prompt), raised |-> <<>>,
          requests |-> <<prompt>>, shown |-> <<>>]
    ELSE [value |-> Generated(prompt), raised |-> <<>>,
          requests |-> <<prompt, prompt>>, shown |-> <<>>]

\* _get_completion(prompt) when the service call ends as `out`:
\*   value    the str returned to the caller
\*   raised   <<>>, or <<e>> when exception e leaves the method
\*   requests the prompts sent to the service
\*   shown    the messages passed to st.error
GetCompletion(prompt, out) ==
    IF out.ok
    THEN [value |-> Generated(prompt), raised |-> <<>>,
          requests |-> <<prompt>>, shown |-> <<>>]
    ELSE [value |-> SorryText, raised |-> <<>>,
          requests |-> <<prompt>>, shown |-> <<<<"API Error: ", out.error>>>>]

\* ------------------------------------------------------------ the prompts

\* seo_optimizer, analysis_prompt
SeoPrompt(url, t, m, h1s, kws) ==
    <<"Analyze this webpage SEO for: URL: ">> \o Str(url)
        \o <<" Title: ">> \o t
        \o <<" Meta Description: ">> \o m
        \o <<" H1 Tags: ">> \o JoinWith(h1s, <<", ">>)
        \o <<" Target Keywords: ">> \o JoinWith(kws, <<", ">>)
        \o <<" Provide recommendations for: 1. ... 5. Technical SEO improvements">>

\* competitor_watchdog, summary_prompt
SummaryPrompt(competitor) ==
    <<"Provide a concise 3-point summary of ">> \o Str(competitor)
        \o <<"'s key strengths and market positioning: ...">>

\* competitor_watchdog, analysis_prompt
AnalysisPrompt(competitor, kws) ==
    <<"Provide a detailed competitive analysis for ">> \o Str(competitor)
        \o <<" focusing on: ... Usage of target keywords: ">>
        \o JoinWith(kws, <<", ">>)
        \o <<" ... Format each section with clear bullet points and specific examples.">>

\* competitor_watchdog, metrics_prompt
MetricsPrompt(competitor) ==
    <<"Based on the website ">> \o Str(competitor)
        \o <<", provide detailed metrics with justification: ...">>

\* post_creator, content_prompt
PostPrompt(topic, platform, tone) ==
    <<"Create a ">> \o Str(platform) \o <<" post about ">> \o topic
        \o <<" with a ">> \o Str(tone) \o <<" tone. Include: ...">>

\* str(segment), the repr of the segment dict
SegmentRepr(segment) ==
    <<"{'segment_name': '", segment.segment_name,
      "', 'characteristics': '", segment.characteristics,
      "', 'engagement': '", segment.engagement, "'}">>

\* smart_email_manager, email_prompt
EmailPrompt(campaign_type, segment) ==
    <<"Create an email campaign for: Campaign Type: ">> \o Str(campaign_type)
        \o <<" Audience Segment: ">> \o SegmentRepr(segment)
        \o <<" Include: 1. Subject line options ... 4. Personalization elements">>

\* generate_subject_lines, prompt
SubjectPrompt(campaign_type, segment) ==
    <<"Generate 5 engaging subject lines for ">> \o Str(campaign_type)
        \o <<" campaign targeting ">> \o Str(segment.segment_name)

\* optimize_send_time
OptimizeSendTime(segment) ==
    IF segment.characteristics = "first_time_buyers" THEN "14:00 PM"
    ELSE IF segment.characteristics = "repeat_buyers" THEN "09:00 AM"
    ELSE "10:00 AM"

\* ------------------------------------------------------------ page fetch

\* What session.get + BeautifulSoup give: the <title> tags, the
\* <meta name="description"> tags with their attributes, the <h1> texts.
FullPage ==
    [titles |-> <<<<"Acme", " ", "Shop">>>>,
     metas |-> <<[attrs |-> {"name", "content"}, content |-> <<"We", " ", "sell">>]>>,
     h1s |-> <<<<" ", "Welcome", NL>>, <<"Offers">>>>]

BarePage == [titles |-> <<>>, metas |-> <<>>, h1s |-> <<>>]

\* a description tag that has no content attribute: meta_desc["content"] raises
NoContentPage ==
    [titles |-> <<<<"Acme">>>>,
     metas |-> <<[attrs |-> {"name"}, content |-> <<>>]>>,
     h1s |-> <<<<"Welcome">>>>]

Pages == {FullPage, BarePage, NoContentPage}

\* the errors session.get and raise_for_status raise
FetchErrors == {"Read timed out.", "404 Client Error"}

\* the errors the completion service raises
ApiErrors == {"Rate limit reached"}

FetchOutcomes ==
    {[ok |-> TRUE, page |-> p] : p \in Pages}
        \cup {[ok |-> FALSE, error |-> e] : e \in FetchErrors}

\* An extraction that reads a description tag without content as "".
ExtractLenient(out) ==
    IF ~out.ok THEN [raised |-> <<out.error>>]
    ELSE [raised |-> <<>>,
          title |-> IF out.page.titles # <<>> THEN out.page.titles[1] ELSE <<>>,
          meta_desc |-> IF out.page.metas # <<>> THEN out.page.metas[1].content
                        ELSE <<>>,
          h1_tags |-> [i \in DOMAIN out.page.h1s |-> Strip(out.page.h1s[i])]]

\* lines 264-270 of seo_optimizer: the metadata, or the exception raised
Extract(out) ==
    IF ~out.ok THEN [raised |-> <<out.error>>]
    ELSE IF out.page.metas # <<>> /\ "content" \notin out.page.metas[1].attrs
    THEN [raised |-> <<"'content'">>]
    ELSE [raised |-> <<>>,
          title |-> IF out.page.titles # <<>> THEN out.page.titles[1] ELSE <<>>,
          meta_desc |-> IF out.page.metas # <<>> THEN out.page.metas[1].content
                        ELSE <<>>,
          h1_tags |-> [i \in DOMAIN out.page.h1s |-> Strip(out.page.h1s[i])]]

\* ------------------------------------------- values kept in result dicts

\* The value of a competitor's field with its Python type: a str or a dict.
PyStr(s) == [str |-> s]
PyDict(d) == [dict |-> d]
IsPyStr(v) == DOMAIN v = {"str"}

\* f"{v}"
Format(v) == IF IsPyStr(v) THEN v.str ELSE <<"{...}">>

\* An entry whose analysis is the parsed mapping instead of the text.
CompetitorEntryParsed(qs, an, me) ==
    [quick_summary |-> PyStr(qs), analysis |-> PyDict(ParseSections(an)),
     metrics |-> PyStr(me)]

\* lines 378-382: the dict stored for one competitor
CompetitorEntry(qs, an, me) ==
    [quick_summary |-> PyStr(qs), analysis |-> PyStr(an), metrics |-> PyStr(me)]

\* A result dict with the title and the description in each other's place.
SeoSuccessSwapped(url, t, m, h1s, rec) ==
    [url |-> url, current_title |-> m, current_meta |-> t, current_h1 |-> h1s,
     recommendations |-> rec]

\* lines 286-292: the dict seo_optimizer returns on success
SeoSuccess(url, t, m, h1s, rec) ==
    [url |-> url, current_title |-> t, current_meta |-> m, current_h1 |-> h1s,
     recommendations |-> rec]

\* line 294: return {"error": str(e)}
SeoFailure(e) == [error |-> e]

\* d.get(k, default) on a dict modelled as a record
RecGet(d, k, default) == IF k \in DOMAIN d THEN d[k] ELSE default

\* lines 630-633: the default audience of the comprehensive report
DefaultAudience ==
    << [segment_name |-> "New Customers", characteristics |-> "First-time Buyers",
        engagement |-> "Medium"],
       [segment_name |-> "Returning Customers", characteristics |-> "Repeat Customers",
        engagement |-> "High"] >>

ExcerptLen == 100

\* ------------------------------------------------------------------ dates

\* line 614: current_date = datetime(2025, 3, 24)
current_date == [y |-> 2025, m |-> 3, d |-> 24]

IsLeap(y) == (y % 4 = 0 /\ y % 100 # 0) \/ y % 400 = 0

DaysIn(y, m) ==
    CASE m \in {4, 6, 9, 11} -> 30
      [] m = 2 -> IF IsLeap(y) THEN 29 ELSE 28
      [] OTHER -> 31

\* the first day of the month after date's
NextMonth(date) ==
    IF date.m < 12 THEN [date EXCEPT !.m = @ + 1, !.d = 1]
    ELSE [y |-> date.y + 1, m |-> 1, d |-> 1]

\* date + timedelta(days=n), n >= 0: within the month, or on from the first
\* day of the next month
RECURSIVE AddDays(_, _)
AddDays(date, n) ==
    IF date.d + n <= DaysIn(date.y, date.m) THEN [date EXCEPT !.d = @ + n]
    ELSE CHOOSE r \in {AddDays(first, n - (DaysIn(date.y, date.m) - date.d + 1)) :
                          first \in {NextMonth(date)}} : TRUE

\* A timedelta that counts a week as five days.
WorkWeeks(w) == 5 * w

\* timedelta(weeks=w), in days
Weeks(w) == 7 * w

\* %m and %d: two digits
Pad2(n) == IF n < 10 THEN "0" \o ToString(n) ELSE ToString(n)

\* date.strftime('%Y-%m-%d')
Strftime(date) == ToString(date.y) \o "-" \o Pad2(date.m) \o "-" \o Pad2(date.d)

\* lines 674-678: the deadlines dict
Deadlines(ref) ==
    << <<"Short-term (1 week)", AddDays(ref, Weeks(1))>>,
       <<"Medium-term (1 month)", AddDays(ref, Weeks(4))>>,
       <<"Long-term (3 months)", AddDays(ref, Weeks(12))>> >>

\* the readings datetime.now() may give: the days of a click
ClockReadings == {current_date, [y |-> 2026, m |-> 11, d |-> 6]}

\* lines 639-660: summary_prompt
SummaryReportPrompt(url, brand, ind, kws, comps, seo, compres, content, emails) ==
    <<"Create a comprehensive marketing analysis report based on: Website: ">>
        \o Str(url) \o <<" Brand: ">> \o Str(brand) \o <<" Industry: ">> \o Str(ind)
        \o <<" Keywords: ">> \o JoinWith(kws, <<", ">>)
        \o <<" Competitors: ">> \o JoinWith([i \in DOMAIN comps |-> Str(comps[i])], <<", ">>)
        \o <<" SEO Analysis: ">> \o RecGet(seo, "recommendations", <<"N/A">>)
        \o <<" Competitor Insights: ">>
        \o JoinWith([i \in DOMAIN compres |->
                        Str(compres[i][1]) \o <<": ">> \o Format(compres[i][2].analysis)],
                    <<", ">>)
        \o <<" Content Suggestions: ">> \o content.content
        \o <<" Email Strategy: ">>
        \o JoinWith([i \in DOMAIN emails |->
                        Str(emails[i][1]) \o <<": ">>
                            \o Prefix(emails[i][2].content, ExcerptLen) \o <<"...">>],
                    <<", ">>)
        \o <<" Provide a detailed report with: ... deadlines starting from ",
              Strftime(current_date), ": ...">>

\* ------------------------------------------------------- main(): one click

MaxCompetitors == 2         \* competitor fields filled in the individual tool
MaxReportCompetitors == 1   \* competitor fields filled in the comprehensive form
MaxFailures == 3            \* completion calls that fail in one run of an individual tool
MaxReportFailures == 2      \* completion calls that fail in one report run

Tools == {"SEO Optimizer", "Competitor Watchdog", "Comprehensive Report"}

Urls == {"", "https://example.com"}
Brands == {"", "Acme"}
Industries == {"", "retail"}
KeywordInputs == {<<>>, <<"seo", ",", " ", "growth">>}
CompetitorFields == {"", "a.com", "b.com"}

ListsUpTo(S, n) == UNION {[1..k -> S] : k \in 1..n}

\* how the next completion call may end
ApiOutcomes ==
    {CallOk} \cup (IF failures < (IF tool = "Comprehensive Report"
                                  THEN MaxReportFailures ELSE MaxFailures)
                   THEN {CallFails(e) : e \in ApiErrors}
                   ELSE {})

\* the service has been called and _get_completion has ended as r
Called(r, out) ==
    /\ calls' = calls \o r.requests
    /\ completions' = Append(completions,
                             [prompt |-> r.requests[1],
                              error |-> IF out.ok THEN <<>> ELSE <<out.error>>,
                              value |-> r.value, raised |-> r.raised])
    /\ st_errors' = st_errors \o r.shown
    /\ failures' = IF out.ok THEN failures ELSE failures + 1

Pending == [pending |-> TRUE]

IsReport == tool = "Comprehensive Report"

\* [k.strip() for k in keywords.split(',')]
KeywordsList(kw) ==
    LET parts == SplitOn(kw, ",") IN [i \in DOMAIN parts |-> Strip(parts[i])]

\* all(competitors)
AllFilled(fields) == \A i \in DOMAIN fields : fields[i] # ""

MainStart ==
    /\ pc = "start"
    /\ keywords_list = <<>>
    /\ calls = <<>> /\ completions = <<>> /\ http_gets = <<>>
    /\ st_errors = <<>> /\ escaped = <<>>
    /\ failures = 0
    /\ progress = <<>>
    /\ title = <<>> /\ meta_desc = <<>> /\ h1_tags = <<>> /\ seo_results = Pending
    /\ ci = 1 /\ quick_summary = <<>> /\ competitor_analysis = <<>>
    /\ competitor_results = <<>>
    /\ content_results = Pending
    /\ si = 1 /\ email_content = <<>> /\ email_results = <<>>
    /\ summary_prompt = <<>> /\ comprehensive_report = <<>>
    /\ tabs = <<>>
    /\ generated_on = <<>> /\ deadlines = <<>> /\ timeline = <<>>

\* no button has been clicked
MainIdle ==
    /\ MainStart
    /\ tool = "" /\ main_url = "" /\ brand_name = "" /\ industry = ""
    /\ keywords = <<>> /\ competitors = <<>>

ParserIdle ==
    /\ analysis_text = <<>> /\ bodies = <<>> /\ lines = <<>> /\ li = 0 /\ sections = <<>>
    /\ current_section = "" /\ current_content = <<>> /\ ppc = "idle"

InitMain ==
    /\ ParserIdle
    /\ MainStart
    /\ keywords \in KeywordInputs
    /\ \/ /\ tool = "SEO Optimizer"
          /\ main_url \in Urls
          /\ brand_name = "" /\ industry = "" /\ competitors = <<>>
       \/ /\ tool = "Competitor Watchdog"
          /\ competitors \in ListsUpTo(CompetitorFields, MaxCompetitors)
          /\ main_url = "" /\ brand_name = "" /\ industry = ""
       \/ /\ tool = "Comprehensive Report"
          /\ main_url \in Urls
          /\ brand_name \in Brands
          /\ industry \in Industries
          /\ competitors \in ListsUpTo(CompetitorFields, MaxReportCompetitors)

\* lines 454, 478, 609-611: the check of the form fields
InputsValid ==
    CASE tool = "SEO Optimizer" -> main_url # "" /\ keywords # <<>>
      [] tool = "Competitor Watchdog" -> AllFilled(competitors) /\ keywords # <<>>
      [] OTHER -> /\ main_url # "" /\ brand_name # "" /\ industry # ""
                  /\ AllFilled(competitors)

\* lines 453-457, 477-481, 608-617: the button's handler up to its first
\* outbound call
Validate ==
    /\ pc = "start"
    /\ IF InputsValid
       THEN /\ keywords_list' = IF keywords # <<>> THEN KeywordsList(keywords)
                                ELSE <<<<"generic">>>>
            /\ pc' = IF tool = "Competitor Watchdog" THEN "summary" ELSE "fetch"
            /\ UNCHANGED st_errors
       ELSE /\ st_errors' = IF IsReport
                            THEN Append(st_errors, <<"Please fill in all required fields">>)
                            ELSE st_errors
            /\ pc' = "rejected"
            /\ UNCHANGED keywords_list
    /\ UNCHANGED <<pvars, inputs, calls, completions, http_gets, escaped, failures,
                   progress, seovars,
                   watchvars, content_results, emailvars, synthvars, shown>>

\* A progress bar that shows 100% one stage early.
ProgressAfterEarly(stage) ==
    CASE stage = 1 -> 25 [] stage = 2 -> 50 [] stage = 3 -> 75
      [] stage = 4 -> 100 [] OTHER -> 100

\* lines 619, 623, 627, 635, 662: the value handed to progress_bar.progress
\* after stage 1 (SEO), 2 (competitors), 3 (content), 4 (email), 5 (report)
ProgressAfter(stage) ==
    CASE stage = 1 -> 25 [] stage = 2 -> 50 [] stage = 3 -> 75
      [] stage = 4 -> 90 [] OTHER -> 100

\* seo_optimizer has returned `result` (lines 457-458, 618-622)
SeoReturns(result) ==
    /\ seo_results' = result
    /\ IF IsReport
       THEN progress' = Append(progress, ProgressAfter(1)) /\ pc' = "summary"
       ELSE UNCHANGED progress /\ pc' = "render"

\* lines 263-270 and 293-294: the page fetch and the extraction
FetchPage ==
    /\ pc = "fetch"
    /\ \E out \in FetchOutcomes :
         LET x == Extract(out) IN
         /\ http_gets' = Append(http_gets, [url |-> main_url, out |-> out])
         /\ IF x.raised # <<>>
            THEN /\ SeoReturns(SeoFailure(x.raised))
                 /\ UNCHANGED <<title, meta_desc, h1_tags>>
            ELSE /\ title' = x.title
                 /\ meta_desc' = x.meta_desc
                 /\ h1_tags' = x.h1_tags
                 /\ pc' = "seo_completion"
                 /\ UNCHANGED <<seo_results, progress>>
    /\ UNCHANGED <<pvars, inputs, keywords_list, calls, completions, st_errors, escaped,
                   failures, watchvars, content_results, emailvars, synthvars, shown>>

\* lines 271-294: the prompt, the completion, the returned dict
SeoCompletion ==
    /\ pc = "seo_completion"
    /\ \E out \in ApiOutcomes :
         LET r == GetCompletion(
                      SeoPrompt(main_url, title, meta_desc, h1_tags, keywords_list), out)
         IN
         /\ Called(r, out)
         /\ IF r.raised # <<>>
            THEN SeoReturns(SeoFailure(r.raised))
            ELSE SeoReturns(SeoSuccess(main_url, title, meta_desc, h1_tags, r.value))
    /\ UNCHANGED <<pvars, inputs, keywords_list, http_gets, escaped,
                   title, meta_desc, h1_tags,
                   watchvars, content_results, emailvars, synthvars, shown>>

\* an exception leaves the click handler: Streamlit ends the script run
Crash(e) == escaped' = e /\ pc' = "crashed"

\* A watchdog that asks for the quick summary of the first competitor only
\* and reuses it for the others.
WatchSummaryOnce ==
    /\ pc = "summary"
    /\ IF ci = 1
       THEN \E out \in ApiOutcomes :
              LET r == GetCompletion(SummaryPrompt(competitors[ci]), out) IN
              /\ Called(r, out)
              /\ quick_summary' = r.value
       ELSE UNCHANGED <<calls, completions, st_errors, failures, quick_summary>>
    /\ pc' = "analysis"
    /\ UNCHANGED <<pvars, inputs, keywords_list, http_gets, escaped, progress, seovars,
                   ci, competitor_analysis, competitor_results,
                   content_results, emailvars, synthvars, shown>>

\* lines 300-307: quick_summary
WatchSummary ==
    /\ pc = "summary"
    /\ \E out \in ApiOutcomes :
         LET r == GetCompletion(SummaryPrompt(competitors[ci]), out) IN
         /\ Called(r, out)
         /\ IF r.raised # <<>>
            THEN Crash(r.raised) /\ UNCHANGED quick_summary
            ELSE quick_summary' = r.value /\ pc' = "analysis" /\ UNCHANGED escaped
    /\ UNCHANGED <<pvars, inputs, keywords_list, http_gets, progress, seovars,
                   ci, competitor_analysis, competitor_results,
                   content_results, emailvars, synthvars, shown>>

\* lines 310-349: competitor_analysis
WatchAnalysis ==
    /\ pc = "analysis"
    /\ \E out \in ApiOutcomes :
         LET r == GetCompletion(AnalysisPrompt(competitors[ci], keywords_list), out) IN
         /\ Called(r, out)
         /\ IF r.raised # <<>>
            THEN Crash(r.raised) /\ UNCHANGED competitor_analysis
            ELSE competitor_analysis' = r.value /\ pc' = "metrics" /\ UNCHANGED escaped
    /\ UNCHANGED <<pvars, inputs, keywords_list, http_gets, progress, seovars,
                   ci, quick_summary, competitor_results,
                   content_results, emailvars, synthvars, shown>>

\* lines 352-383: metrics_analysis, the competitor's entry, the next
\* competitor or the return (lines 481, 622-623)
WatchMetrics ==
    /\ pc = "metrics"
    /\ \E out \in ApiOutcomes :
         LET r == GetCompletion(MetricsPrompt(competitors[ci]), out) IN
         /\ Called(r, out)
         /\ IF r.raised # <<>>
            THEN Crash(r.raised) /\ UNCHANGED <<ci, competitor_results, progress>>
            ELSE /\ competitor_results' =
                        DictSet(competitor_results, competitors[ci],
                                CompetitorEntry(quick_summary, competitor_analysis, r.value))
                 /\ UNCHANGED escaped
                 /\ IF ci < Len(competitors)
                    THEN ci' = ci + 1 /\ pc' = "summary" /\ UNCHANGED progress
                    ELSE /\ UNCHANGED ci
                         /\ IF IsReport
                            THEN progress' = Append(progress, ProgressAfter(2)) /\ pc' = "post"
                            ELSE UNCHANGED progress /\ pc' = "render"
    /\ UNCHANGED <<pvars, inputs, keywords_list, http_gets, seovars,
                   quick_summary, competitor_analysis,
                   content_results, emailvars, synthvars, shown>>

\* lines 385-395 and 626-627: post_creator(f"{industry} trends", "LinkedIn",
\* "professional"); created_at is the clock's reading
PostCreator ==
    /\ pc = "post"
    /\ \E out \in ApiOutcomes :
         LET topic == Str(industry) \o <<" trends">>
             r == GetCompletion(PostPrompt(topic, "LinkedIn", "professional"), out)
         IN
         /\ Called(r, out)
         /\ IF r.raised # <<>>
            THEN Crash(r.raised) /\ UNCHANGED <<content_results, progress>>
            ELSE /\ content_results' =
                        [platform |-> "LinkedIn", content |-> r.value, topic |-> topic,
                         created_at |-> "datetime.now().isoformat()"]
                 /\ progress' = Append(progress, ProgressAfter(3))
                 /\ pc' = "email_body"
                 /\ UNCHANGED escaped
    /\ UNCHANGED <<pvars, inputs, keywords_list, http_gets, seovars, watchvars,
                   emailvars, synthvars, shown>>

\* lines 400-410: email_content for audience[si]
EmailBody ==
    /\ pc = "email_body"
    /\ \E out \in ApiOutcomes :
         LET r == GetCompletion(EmailPrompt("Promotional", DefaultAudience[si]), out) IN
         /\ Called(r, out)
         /\ IF r.raised # <<>>
            THEN Crash(r.raised) /\ UNCHANGED email_content
            ELSE email_content' = r.value /\ pc' = "subject_lines" /\ UNCHANGED escaped
    /\ UNCHANGED <<pvars, inputs, keywords_list, http_gets, progress, seovars, watchvars,
                   content_results, si, email_results, synthvars, shown>>

\* lines 411-416, 418-420 and 634-635: the subject lines, the send time, the
\* segment's entry, the next segment or the return
SubjectLines ==
    /\ pc = "subject_lines"
    /\ \E out \in ApiOutcomes :
         LET seg == DefaultAudience[si]
             r == GetCompletion(SubjectPrompt("Promotional", seg), out)
         IN
         /\ Called(r, out)
         /\ IF r.raised # <<>>
            THEN Crash(r.raised) /\ UNCHANGED <<si, email_results, progress>>
            ELSE /\ email_results' =
                        DictSet(email_results, seg.segment_name,
                                [content |-> email_content,
                                 subject_lines |-> Split(r.value),
                                 send_time |-> OptimizeSendTime(seg)])
                 /\ UNCHANGED escaped
                 /\ IF si < Len(DefaultAudience)
                    THEN si' = si + 1 /\ pc' = "email_body" /\ UNCHANGED progress
                    ELSE /\ UNCHANGED si
                         /\ progress' = Append(progress, ProgressAfter(4))
                         /\ pc' = "synthesis"
    /\ UNCHANGED <<pvars, inputs, keywords_list, http_gets, seovars, watchvars,
                   content_results, email_content, synthvars, shown>>

\* lines 637-662: summary_prompt and the final completion
Synthesis ==
    /\ pc = "synthesis"
    /\ \E out \in ApiOutcomes :
         LET p == SummaryReportPrompt(main_url, brand_name, industry, keywords_list,
                                      competitors, seo_results, competitor_results,
                                      content_results, email_results)
             r == GetCompletion(p, out)
         IN
         /\ summary_prompt' = p
         /\ Called(r, out)
         /\ IF r.raised # <<>>
            THEN Crash(r.raised) /\ UNCHANGED <<comprehensive_report, progress>>
            ELSE /\ comprehensive_report' = r.value
                 /\ progress' = Append(progress, ProgressAfter(5))
                 /\ pc' = "render"
                 /\ UNCHANGED escaped
    /\ UNCHANGED <<pvars, inputs, keywords_list, http_gets, seovars, watchvars,
                   content_results, emailvars, shown>>

\* lines 458-466, 484-535 and 664-753: the results are displayed; each
\* competitor's analysis text is parsed into the five tabs; the report is
\* dated with the clock's reading and its timeline counted from current_date
Render ==
    /\ pc = "render"
    /\ IF tool = "SEO Optimizer"
       THEN /\ st_errors' = IF "error" \in DOMAIN seo_results
                            THEN Append(st_errors,
                                        <<"SEO analysis failed: ">> \o seo_results.error)
                            ELSE st_errors
            /\ pc' = "done"
            /\ UNCHANGED <<shown, escaped>>
       ELSE IF \A i \in DOMAIN competitor_results :
                    IsPyStr(competitor_results[i][2].analysis)
       THEN /\ tabs' = [i \in DOMAIN competitor_results |->
                           <<competitor_results[i][1],
                             ParseSections(competitor_results[i][2].analysis.str)>>]
            /\ IF IsReport
               THEN /\ \E now \in ClockReadings : generated_on' = <<now>>
                    /\ deadlines' = Deadlines(current_date)
                    /\ timeline' = [i \in DOMAIN deadlines' |->
                                       <<deadlines'[i][1], Strftime(deadlines'[i][2])>>]
               ELSE UNCHANGED <<generated_on, deadlines, timeline>>
            /\ pc' = "done"
            /\ UNCHANGED <<st_errors, escaped>>
       ELSE /\ Crash(<<"'dict' object has no attribute 'split'">>)
            /\ UNCHANGED <<shown, st_errors>>
    /\ UNCHANGED <<pvars, inputs, keywords_list, calls, completions, http_gets, failures,
                   progress, seovars, watchvars, content_results, emailvars, synthvars>>

NextMain ==
    \/ Validate
    \/ FetchPage
    \/ SeoCompletion
    \/ WatchSummary
    \/ WatchAnalysis
    \/ WatchMetrics
    \/ PostCreator
    \/ EmailBody
    \/ SubjectLines
    \/ Synthesis
    \/ Render

SpecMain == InitMain /\ [][NextMain]_vars

\* The handler is one thread of straight-line code and every outbound call
\* returns (with a result or with an error), so a step that can be taken is
\* taken.
FairSpecMain == SpecMain /\ WF_vars(NextMain)

\* ---- the parsing code, one action per step

Tokens == Range(SectionNames) \cup {"x", " ", NL}

InitParser ==
    /\ \E n \in 0..MaxTextLen : analysis_text \in [1..n -> Tokens]
    /\ bodies = <<>>
    /\ lines = <<>>
    /\ li = 0
    /\ sections = <<>>
    /\ current_section = ""
    /\ current_content = <<>>
    /\ ppc = "begin"
    /\ MainIdle

\* lines 499-512: build the dict, reset the scanner, split the text
ParseBegin ==
    /\ ppc = "begin"
    /\ sections' = ParseStart.sections
    /\ current_section' = ParseStart.current_section
    /\ current_content' = ParseStart.current_content
    /\ lines' = Split(analysis_text)
    /\ li' = 1
    /\ ppc' = "scan"
    /\ UNCHANGED <<analysis_text, bodies, mvars>>

\* lines 512-519: one iteration of the for loop
ScanLine ==
    /\ ppc = "scan"
    /\ li <= Len(lines)
    /\ LET st == ParseStep([sections |-> sections,
                            current_section |-> current_section,
                            current_content |-> current_content], lines[li])
       IN  /\ sections' = st.sections
           /\ current_section' = st.current_section
           /\ current_content' = st.current_content
    /\ li' = li + 1
    /\ UNCHANGED <<analysis_text, bodies, lines, ppc, mvars>>

\* lines 521-522: the flush after the loop
ParseEnd ==
    /\ ppc = "scan"
    /\ li > Len(lines)
    /\ sections' = Flush(sections, current_section, current_content)
    /\ ppc' = "parsed"
    /\ UNCHANGED <<analysis_text, bodies, lines, li, current_section, current_content,
                   mvars>>

NextParser == ParseBegin \/ ScanLine \/ ParseEnd

SpecParser == InitParser /\ [][NextParser]_vars

\* ---- the parsing code on a text laid out as the analysis prompt asks

MaxBodyLines == 3       \* lines of the longest body

\* body i is written with the word BodyWords[i], so the bodies are distinct
BodyWords == <<"alpha", "beta", "gamma", "delta", "epsilon">>

\* the kinds of line a completion text has: a bullet, an indented bullet, a
\* bullet that mentions a section by name, an empty line
LineKinds == {"text", "indented", "mention", "blank"}

\* line j of body i
BodyLine(i, j, kind) ==
    CASE kind = "text" -> <<BodyWords[i], ToString(j)>>
      [] kind = "indented" -> <<" ", BodyWords[i], ToString(j)>>
      [] kind = "mention" -> <<BodyWords[i], ToString(j), "see", SectionNames[3]>>
      [] OTHER -> <<>>

\* body i: its first n lines, of the kinds `pattern` gives
Body(i, n, pattern) == Join([j \in 1..n |-> BodyLine(i, j, pattern[j])])

\* "Content Strategy" on a line of its own, or "1. Content Strategy:" as in
\* the prompt
HeadingStyles == {"plain", "numbered"}

HeadingLine(i, style) ==
    IF style = "plain" THEN <<SectionNames[i]>>
    ELSE <<ToString(i), ". ", SectionNames[i], ":">>

\* the five headings in the order of the dict literal, each followed by its body
WellFormed(bs, style) ==
    Join([i \in DOMAIN SectionNames |-> HeadingLine(i, style) \o <<NL>> \o bs[i]])

\* Every body is one line or MaxBodyLines lines long, and begins and ends
\* with a line that has text.
InitWellFormed ==
    /\ \E style \in HeadingStyles :
       \E pattern \in [1..MaxBodyLines -> LineKinds] :
       \E n \in [DOMAIN SectionNames -> {1, MaxBodyLines}] :
           /\ pattern[1] # "blank" /\ pattern[MaxBodyLines] # "blank"
           /\ bodies = [i \in DOMAIN SectionNames |-> Body(i, n[i], pattern)]
           /\ analysis_text = WellFormed(bodies, style)
    /\ lines = <<>>
    /\ li = 0
    /\ sections = <<>>
    /\ current_section = ""
    /\ current_content = <<>>
    /\ ppc = "begin"
    /\ MainIdle

SpecWellFormed == InitWellFormed /\ [][NextParser]_vars

\* C1: once the parser has built its mapping, and after every scanned line
\* and after the final flush, the keys of the mapping are exactly the five
\* canonical names in canonical order.
C1_KeysCanonical ==
    ppc \in {"scan", "parsed"} => DictKeys(sections) = SectionNames

\* A later heading has flushed a body into a section that is not the last key.
C1_Witness ==
    /\ ppc = "parsed"
    /\ \E i \in DOMAIN sections : i < Len(sections) /\ sections[i][2] # <<>>

\* ------------------------------------------------ what the claims refer to

\* competitor_watchdog has returned its dict to main()
WatchReturned ==
    /\ tool \in {"Competitor Watchdog", "Comprehensive Report"}
    /\ pc \in {"post", "email_body", "subject_lines", "synthesis", "render", "done"}

\* seo_optimizer has returned its dict to main()
SeoReturned == seo_results # Pending

\* the _get_completion invocations made with prompt p, in order
InvocationsOf(p) == SelectSeq(completions, LAMBDA c : c.prompt = p)

Invoked(p) == InvocationsOf(p) # <<>>

\* the last invocation made with prompt p
LastOf(p) == LET inv == InvocationsOf(p) IN inv[Len(inv)]

\* what a call with prompt p returns when no call fails
Undisturbed(p) == Generated(p)

\* the three prompts of competitor c, by the field their result goes to
WatchPrompt(c, field) ==
    CASE field = "quick_summary" -> SummaryPrompt(c)
      [] field = "analysis" -> AnalysisPrompt(c, keywords_list)
      [] OTHER -> MetricsPrompt(c)

WatchFields == {"quick_summary", "analysis", "metrics"}

\* the literal text every SEO prompt starts with
IsSeoPrompt(p) == p[1] = "Analyze this webpage SEO for: URL: "

\* the page fetch or the extraction of the one session.get failed
FetchFailed ==
    /\ http_gets # <<>>
    /\ LET out == http_gets[1].out IN
       \/ ~out.ok
       \/ out.page.metas # <<>> /\ "content" \notin out.page.metas[1].attrs

\* C2 as stated: every requested competitor has an entry with the three
\* fields; a field of a competitor for which a call failed holds the failure
\* text; a competitor none of whose calls failed has the entry it has when no
\* call fails at all.
C2_AsStated ==
    WatchReturned =>
        \A i \in DOMAIN competitors :
            LET c == competitors[i] IN
            /\ HasKey(competitor_results, c)
            /\ DOMAIN DictGet(competitor_results, c) = WatchFields
            /\ \A f \in WatchFields :
                 (\E k \in DOMAIN completions :
                      /\ completions[k].prompt = WatchPrompt(c, f)
                      /\ completions[k].error # <<>>)
                     => DictGet(competitor_results, c)[f] = PyStr(SorryText)
            /\ (\A f \in WatchFields : \A k \in DOMAIN completions :
                      completions[k].prompt = WatchPrompt(c, f)
                          => completions[k].error = <<>>)
                   => \A f \in WatchFields :
                        DictGet(competitor_results, c)[f]
                            = PyStr(Undisturbed(WatchPrompt(c, f)))

\* C2, amended: no failing call ends the run, and once competitor_watchdog
\* has returned, every requested competitor has an entry with the three
\* fields, each holding the result of the call made for the competitor's last
\* occurrence in the list: the failure text where that call failed, and
\* otherwise the text it holds when no call fails at all.
C2_EntryPerCompetitor ==
    /\ escaped = <<>>
    /\ WatchReturned =>
        \A i \in DOMAIN competitors :
            LET c == competitors[i] IN
            /\ HasKey(competitor_results, c)
            /\ DOMAIN DictGet(competitor_results, c) = WatchFields
            /\ \A f \in WatchFields :
                 /\ Invoked(WatchPrompt(c, f))
                 /\ DictGet(competitor_results, c)[f] =
                        PyStr(IF LastOf(WatchPrompt(c, f)).error # <<>>
                              THEN SorryText
                              ELSE Undisturbed(WatchPrompt(c, f)))

\* Two competitors: all three calls of the first failed, none of the second.
C2_Witness ==
    /\ WatchReturned
    /\ Len(competitors) = 2 /\ competitors[1] # competitors[2]
    /\ \A f \in WatchFields :
         /\ LastOf(WatchPrompt(competitors[1], f)).error # <<>>
         /\ LastOf(WatchPrompt(competitors[2], f)).error = <<>>
         /\ DictGet(competitor_results, competitors[1])[f] = PyStr(SorryText)

\* C3: every _get_completion has returned a str to its caller, none has let
\* an exception out, and each has sent exactly one request to the service,
\* also when the service failed.
C3_OneCallNoEscape ==
    /\ Len(calls) = Len(completions)
    /\ \A k \in DOMAIN completions :
         /\ completions[k].raised = <<>>
         /\ calls[k] = completions[k].prompt
         /\ completions[k].value \in {SorryText, Generated(completions[k].prompt)}

\* Some call has failed and a later call has been made.
C3_Witness ==
    \E k \in DOMAIN completions :
        /\ completions[k].error # <<>>
        /\ k < Len(completions)
        /\ completions[k + 1].prompt # completions[k].prompt

\* C4: when the page fetch or the extraction has failed, seo_optimizer returns
\* a dict with the single key "error" holding that error's text, and no SEO
\* completion has been requested.
C4_FetchFailureShortCircuits ==
    FetchFailed =>
        /\ seo_results =
              [error |-> IF http_gets[1].out.ok THEN <<"'content'">>
                         ELSE <<http_gets[1].out.error>>]
        /\ \A k \in DOMAIN calls : ~IsSeoPrompt(calls[k])

\* The extraction failed on a fetched page, and the report went on to run.
C4_Witness ==
    /\ FetchFailed
    /\ http_gets[1].out.ok
    /\ IsReport /\ pc = "done"

\* the stage of the comprehensive report a prompt belongs to
PromptStage(p) ==
    CASE IsSeoPrompt(p) -> 1
      [] p[1] \in {"Provide a concise 3-point summary of ",
                   "Provide a detailed competitive analysis for ",
                   "Based on the website "} -> 2
      [] p[1] = "Create a " -> 3
      [] p[1] \in {"Create an email campaign for: Campaign Type: ",
                   "Generate 5 engaging subject lines for "} -> 4
      [] OTHER -> 5

ProgressSteps == <<25, 50, 75, 90, 100>>

IsPrefix(a, b) == Len(a) <= Len(b) /\ a = SubSeq(b, 1, Len(a))

\* stage k of the report has returned its result to main()
StageReturned(k) ==
    CASE k = 1 -> SeoReturned
      [] k = 2 -> \A i \in DOMAIN competitors : HasKey(competitor_results, competitors[i])
      [] k = 3 -> content_results # Pending
      [] k = 4 -> DictKeys(email_results)
                     = [i \in DOMAIN DefaultAudience |-> DefaultAudience[i].segment_name]
      [] OTHER -> /\ completions # <<>>
                  /\ completions[Len(completions)].prompt = summary_prompt
                  /\ comprehensive_report = completions[Len(completions)].value

\* C5: in a report run the progress values are emitted in the order 25, 50,
\* 75, 90, 100, one value at a time; value k is emitted only when stage k has
\* returned, and every outbound call is issued for the stage that follows the
\* last value emitted.  So the stages run in the fixed order, a stage starts
\* only after the previous one has returned and reported, and 100 is emitted
\* only after the synthesis call has returned.
C5_StagesAndProgress ==
    [][IsReport =>
         /\ IsPrefix(progress', ProgressSteps)
         /\ \A k \in DOMAIN calls' :
              k > Len(calls) => PromptStage(calls'[k]) = Len(progress) + 1
         /\ http_gets' # http_gets => progress = <<>>
         /\ progress' # progress =>
              /\ Len(progress') = Len(progress) + 1
              /\ \E n \in DOMAIN ProgressSteps :
                   n = Len(progress) + 1 /\ StageReturned(n)'
              /\ \A j \in 1..Len(progress) : StageReturned(j)']_vars

\* A report run has emitted all five values.
C5_Witness == IsReport /\ pc = "done" /\ progress = ProgressSteps

\* C6: every report run that has passed the check of its form fields reaches
\* the end of the handler, with 100% reported and the report rendered,
\* whichever page fetch and completion calls fail on the way.
C6_ReportCompletes ==
    (IsReport /\ pc = "fetch")
        ~> (pc = "done" /\ progress = ProgressSteps
              /\ comprehensive_report # <<>> /\ tabs # <<>>)

\* A report run has ended after a failed page fetch and failed completions.
C6_Witness ==
    /\ IsReport /\ pc = "done" /\ progress[Len(progress)] = 100
    /\ FetchFailed
    /\ failures >= 2

\* the first position of token t in p
IndexOf(p, t) == CHOOSE i \in DOMAIN p : p[i] = t /\ \A j \in 1..(i - 1) : p[j] # t

\* the part of p between the literal texts a and b
Between(p, a, b) == SubSeq(p, IndexOf(p, a) + 1, IndexOf(p, b) - 1)

\* C7 as stated: in a report run, once the synthesis prompt is built, the
\* part of the prompt that stands for a failed sub-operation holds the
\* failure's text: the error of a failed SEO audit, and the failure text of
\* a failed SEO or content completion, which is also in the result field.
C7_AsStated ==
    (IsReport /\ summary_prompt # <<>>) =>
        /\ FetchFailed =>
             Between(summary_prompt, " SEO Analysis: ", " Competitor Insights: ")
                 = seo_results.error
        /\ (~FetchFailed /\ completions[1].error # <<>>) =>
             /\ seo_results.recommendations = SorryText
             /\ Between(summary_prompt, " SEO Analysis: ", " Competitor Insights: ")
                    = SorryText
        /\ LastOf(PostPrompt(Str(industry) \o <<" trends">>, "LinkedIn",
                             "professional")).error # <<>> =>
             /\ content_results.content = SorryText
             /\ Between(summary_prompt, " Content Suggestions: ", " Email Strategy: ")
                    = SorryText

\* C8 as stated: the value _get_completion returns for a failed service call
\* carries the message of the error, and is not a value a successful call
\* returns.
C8_AsStated ==
    \A k \in DOMAIN completions :
        completions[k].error # <<>> =>
            /\ Contains(completions[k].value, completions[k].error[1])
            /\ completions[k].value # Generated(completions[k].prompt)

\* C9: when the fetch and the extraction have succeeded, the dict that
\* seo_optimizer returns holds the URL, the title, description and h1 texts
\* taken from the page, and as recommendations the value _get_completion
\* returned: the completion text, or the failure text when the call failed.
C9_SeoResult ==
    (SeoReturned /\ ~FetchFailed) =>
        LET page == http_gets[1].out.page
            p == SeoPrompt(main_url, title, meta_desc, h1_tags, keywords_list)
        IN  /\ DOMAIN seo_results =
                  {"url", "current_title", "current_meta", "current_h1", "recommendations"}
            /\ seo_results.url = main_url
            /\ seo_results.current_title = title
            /\ seo_results.current_title =
                  IF page.titles = <<>> THEN <<>> ELSE page.titles[1]
            /\ seo_results.current_meta = meta_desc
            /\ seo_results.current_meta =
                  IF page.metas = <<>> THEN <<>> ELSE page.metas[1].content
            /\ seo_results.current_h1 = h1_tags
            /\ Len(seo_results.current_h1) = Len(page.h1s)
            /\ Invoked(p)
            /\ seo_results.recommendations = LastOf(p).value
            /\ seo_results.recommendations =
                  IF LastOf(p).error # <<>> THEN SorryText ELSE Generated(p)

\* The page had a title, a description and h1 texts, and the completion failed.
C9_Witness ==
    /\ SeoReturned /\ ~FetchFailed
    /\ seo_results.current_title # <<>> /\ seo_results.current_meta # <<>>
    /\ seo_results.current_title # seo_results.current_meta
    /\ seo_results.current_h1 # <<>>
    /\ seo_results.recommendations = SorryText

PlainBodies ==
    \A i \in DOMAIN bodies :
        \A l \in Range(Split(bodies[i])) : NonBlank(l) /\ ~IsHeading(EmptySections, l)

\* C11 as stated: when the text is the five headings in canonical order, each
\* followed by its own body, the parsed value of every section is that body.
C11_AsStated ==
    (ppc = "parsed" /\ bodies # <<>>) =>
        \A i \in DOMAIN SectionNames : sections[i] = <<SectionNames[i], bodies[i]>>

\* C11, amended: the same, for bodies none of whose lines is blank or
\* contains a canonical section name.
C11_BodiesRecovered ==
    (ppc = "parsed" /\ bodies # <<>> /\ PlainBodies) =>
        \A i \in DOMAIN SectionNames : sections[i] = <<SectionNames[i], bodies[i]>>

\* Bodies of several lines, one of them indented, have been recovered.
C11_Witness ==
    /\ ppc = "parsed" /\ bodies # <<>> /\ PlainBodies
    /\ \E i \in DOMAIN bodies :
           /\ Len(Split(bodies[i])) = MaxBodyLines
           /\ \E l \in Range(Split(bodies[i])) : l[1] = " "
           /\ sections[i][2] = bodies[i]
    /\ \E i \in DOMAIN bodies : Len(Split(bodies[i])) = 1

\* no line of the text contains a canonical section name
NoHeading == \A k \in DOMAIN analysis_text : analysis_text[k] \notin Range(SectionNames)

\* C12: when no line of the input contains a canonical name, the parser never
\* activates a section and never accumulates a line, and after every scanned
\* line and after the final flush all five values are the empty string.
C12_NoHeadingAllEmpty ==
    (NoHeading /\ ppc \in {"scan", "parsed"}) =>
        /\ sections = EmptySections
        /\ current_section = ""
        /\ current_content = <<>>

\* A text of several lines, with text on two of them and no heading, has
\* been parsed to the end.
C12_Witness ==
    /\ NoHeading /\ ppc = "parsed"
    /\ Len(lines) >= 3
    /\ \E i, j \in DOMAIN lines : i # j /\ NonBlank(lines[i]) /\ NonBlank(lines[j])
    /\ \A i \in DOMAIN sections : sections[i][2] = <<>>

\* C13 as stated: the send time stored for every segment of the campaign is
\* "14:00 PM" when the segment's characteristic is first-time buyers,
\* "09:00 AM" when it is repeat customers, and "10:00 AM" otherwise.
C13_AsStated ==
    \A i \in DOMAIN email_results :
        \A k \in DOMAIN DefaultAudience :
            DefaultAudience[k].segment_name = email_results[i][1] =>
                email_results[i][2].send_time =
                    CASE DefaultAudience[k].characteristics = "First-time Buyers" -> "14:00 PM"
                      [] DefaultAudience[k].characteristics = "Repeat Customers" -> "09:00 AM"
                      [] OTHER -> "10:00 AM"

\* the number of the day `date` in the proleptic Gregorian calendar, counted
\* from 0000-03-01
Ordinal(date) ==
    LET y == IF date.m <= 2 THEN date.y - 1 ELSE date.y
        mp == (date.m + 9) % 12
    IN  365 * y + (y \div 4) - (y \div 100) + (y \div 400)
            + ((153 * mp + 2) \div 5) + date.d - 1

\* the start date written into the synthesis prompt
PromptStartDate ==
    summary_prompt[IndexOf(summary_prompt,
        " Provide a detailed report with: ... deadlines starting from ") + 1]

\* C14: in a report run the start date in the synthesis prompt is
\* 2025-03-24; the three deadlines are that one date plus 7, 28 and 84 days,
\* and they are written as 2025-03-31, 2025-04-21 and 2025-06-16, whatever
\* the clock reads.
C14_Deadlines ==
    /\ (IsReport /\ summary_prompt # <<>>) => PromptStartDate = "2025-03-24"
    /\ (IsReport /\ pc = "done") =>
          \E ref \in {current_date} :
              /\ PromptStartDate = Strftime(ref)
              /\ Len(deadlines) = 3
              /\ Ordinal(deadlines[1][2]) = Ordinal(ref) + 7
              /\ Ordinal(deadlines[2][2]) = Ordinal(ref) + 28
              /\ Ordinal(deadlines[3][2]) = Ordinal(ref) + 84
              /\ timeline = << <<"Short-term (1 week)", "2025-03-31">>,
                               <<"Medium-term (1 month)", "2025-04-21">>,
                               <<"Long-term (3 months)", "2025-06-16">> >>

\* A report has been rendered on a day that is not the reference date.
C14_Witness ==
    /\ IsReport /\ pc = "done"
    /\ timeline # <<>>
    /\ generated_on # <<current_date>>

\* C15 as stated: in a rendered report the date written as "Generated on"
\* is the date the deadlines are counted from: the short-term deadline is
\* seven days after it, the others 28 and 84 days after it.
C15_AsStated ==
    (IsReport /\ pc = "done") =>
        /\ Len(generated_on) = 1
        /\ Ordinal(deadlines[1][2]) = Ordinal(generated_on[1]) + 7
        /\ Ordinal(deadlines[2][2]) = Ordinal(generated_on[1]) + 28
        /\ Ordinal(deadlines[3][2]) = Ordinal(generated_on[1]) + 84

\* the prompts competitor_watchdog has sent so far
WatchCalls == SelectSeq(calls, LAMBDA p : PromptStage(p) = 2)

\* for each competitor in input order: quick summary, deep analysis, metrics
WatchOrder ==
    [k \in 1..(3 * Len(competitors)) |->
        LET c == competitors[((k - 1) \div 3) + 1] IN
        CASE (k - 1) % 3 = 0 -> SummaryPrompt(c)
          [] (k - 1) % 3 = 1 -> AnalysisPrompt(c, keywords_list)
          [] OTHER -> MetricsPrompt(c)]

\* C16: every step of a run sends at most one prompt, and only when every
\* prompt sent before has been answered; the prompts competitor_watchdog has
\* sent are at every moment the first ones of the sequence summary, analysis,
\* metrics of the first competitor, then of the second, and so on; and when
\* it has returned it has sent exactly that sequence, three prompts per
\* competitor.
C16_OneAtATimeInOrder ==
    [][/\ Len(calls') <= Len(calls) + 1
       /\ Len(calls') > Len(calls) => Len(completions) = Len(calls)
       /\ Len(completions') = Len(calls')
       /\ IsPrefix(WatchCalls', WatchOrder')
       /\ WatchReturned' =>
            /\ WatchCalls' = WatchOrder'
            /\ Len(WatchCalls') = 3 * Len(competitors')]_vars

\* The watchdog has returned from a run over two different competitors in
\* which a call failed.
C16_Witness ==
    /\ WatchReturned
    /\ Len(competitors) = 2 /\ competitors[1] # competitors[2]
    /\ Len(WatchCalls) = 6
    /\ failures > 0

\* the str a occurs in the str b, token for token
IsInfix(a, b) == \E i \in 0..(Len(b) - Len(a)) : SubSeq(b, i + 1, i + Len(a)) = a

\* the segment a prompt of smart_email_manager was written for
SegmentsOf(p) ==
    {k \in DOMAIN DefaultAudience :
        p \in {EmailPrompt("Promotional", DefaultAudience[k]),
               SubjectPrompt("Promotional", DefaultAudience[k])}}

\* C17 as stated: two prompts sent for the same competitor and the same
\* field are the same prompt, and every prompt sent holds, verbatim, every
\* value of the parameters it was built from: the URL and each keyword (SEO),
\* the competitor (quick summary, metrics), the competitor and each keyword
\* (deep analysis), the topic, platform and tone (post), the campaign type
\* and the name, characteristic and engagement of the segment (email body and
\* subject lines).
C17_AsStated ==
    /\ \A j, k \in DOMAIN WatchCalls :
          (j % 3 = k % 3 /\ competitors[((j - 1) \div 3) + 1] = competitors[((k - 1) \div 3) + 1])
              => WatchCalls[j] = WatchCalls[k]
    /\ \A n \in DOMAIN calls :
          LET p == calls[n] IN
          CASE PromptStage(p) = 1 ->
                 /\ Contains(p, main_url)
                 /\ \A i \in DOMAIN keywords_list : IsInfix(keywords_list[i], p)
            [] PromptStage(p) = 2 ->
                 /\ \E c \in Range(competitors) : Contains(p, c)
                 /\ p[1] = "Provide a detailed competitive analysis for " =>
                        \A i \in DOMAIN keywords_list : IsInfix(keywords_list[i], p)
            [] PromptStage(p) = 3 ->
                 /\ IsInfix(Str(industry) \o <<" trends">>, p)
                 /\ Contains(p, "LinkedIn") /\ Contains(p, "professional")
            [] PromptStage(p) = 4 ->
                 /\ Contains(p, "Promotional")
                 /\ SegmentsOf(p) # {}
                 /\ \A k \in SegmentsOf(p) :
                        /\ Contains(p, DefaultAudience[k].segment_name)
                        /\ Contains(p, DefaultAudience[k].characteristics)
                        /\ Contains(p, DefaultAudience[k].engagement)
            [] OTHER -> TRUE

\* the lines that count as a heading, by position
HeadingLines == {i \in DOMAIN lines : IsHeading(EmptySections, lines[i])}

\* the positions where name is the first canonical name the line contains
OccurrencesOf(name) == {i \in HeadingLines : FirstHeading(EmptySections, lines[i]) = name}

\* the non-blank lines after heading line i up to the next heading line or
\* the end of the input
BodyAfter(i) ==
    LET next == {h \in HeadingLines : h > i}
        end == IF next = {} THEN Len(lines)
               ELSE (CHOOSE h \in next : \A g \in next : h <= g) - 1
    IN  SelectSeq([j \in 1..(end - i) |-> lines[i + j]], LAMBDA l : NonBlank(l))

\* C18 as stated: after parsing, the value of every section is the
\* newline-join of the non-blank lines between the last occurrence of its
\* heading and the next heading line or the end of the input, and the empty
\* string when its heading never occurs.
C18_AsStated ==
    ppc = "parsed" =>
        \A n \in DOMAIN sections :
            LET occ == OccurrencesOf(sections[n][1]) IN
            sections[n][2] =
                IF occ = {} THEN <<>>
                ELSE Join(BodyAfter(CHOOSE i \in occ : \A g \in occ : g <= i))

====
